---- MODULE Spec2Model ----
\* Model of git_projects.services.sync_projects (the synchronization engine)
\* together with the git_projects.gitops wrappers it calls.
\*
\* One call of sync_projects is modelled: the caller's thread (mainPc), the
\* ThreadPoolExecutor's FIFO work queue, one task per input project running
\* _sync_one, the lock, the shared SyncResult and the on_project callback.
\* The filesystem and the git subprocesses are the environment: what
\* Path.exists() answers and what each subprocess returns is chosen when the
\* call is made.
EXTENDS Integers, Sequences, FiniteSets, TLC

\* ---------------------------------------------------------------- bounds

\* Largest number of projects in the input list.
MaxProjects == 2

\* Largest max_workers value tried (the smallest is -1).
MaxWorkers == 2

NamePool == <<"a", "b", "c", "d">>

\* Project names the input list draws from (a list may repeat a name).
Names == {NamePool[k] : k \in 1..MaxProjects}

\* sync_projects only copies names, so input lists are taken up to renaming:
\* the k-th name of the pool first occurs after the (k-1)-th has occurred.
FirstUseInOrder(p) ==
    \A i \in DOMAIN p : \A k \in 2..MaxProjects :
        p[i].name = NamePool[k] => \E j \in 1..(i - 1) : p[j].name = NamePool[k - 1]

\* Project(clone_url, name, path) for a name, shaped as the tests' _PROJECTS:
\* two projects of one name also share their path.
ProjectOf(n) ==
    [clone_url |-> "https://github.com/u/" \o n \o ".git", name |-> n,
     path |-> "/repos/" \o n]

\* The input lists tried: every length up to MaxProjects, names distinct or
\* repeated.
ProjectLists ==
    {p \in UNION {[1..n -> {ProjectOf(n1) : n1 \in Names}] : n \in 0..MaxProjects} :
        FirstUseInOrder(p)}

\* The text git writes to stderr when a subcommand fails: one per subcommand,
\* so that a recorded message tells which call it came from.
StderrTexts(op) ==
    CASE op = "clone" -> {"auth failed"}
      [] op = "pull" -> {"conflict"}
      [] OTHER -> {"rejected"}

VARIABLES
    projects,     \* the input list: projects[i].name
    max_workers,  \* the max_workers argument
    on_project,   \* TRUE iff an on_project callback was supplied
    mainPc,       \* the caller's position in sync_projects
    nsubmitted,   \* how many projects executor.submit has been called for
    raisedExc,    \* the exception sync_projects is leaving with, or "none"
    queue,        \* the executor's work queue (task indices, FIFO)
    pc,           \* pc[i]: position of task i in _sync_one
    branch,       \* branch[i]: which "with lock:" block task i is headed for
    exc,          \* exc[i]: str(exc) of the GitError task i caught
    futExc,       \* futExc[i]: the exception stored in task i's future
    oplog,        \* oplog[i]: the calls task i made, with what they gave
    lock,         \* 0 when free, else the task holding it
    result,       \* the shared SyncResult
    calls,        \* the on_project invocations made so far, in order
    registry,     \* projects.json: the tracked projects, in order
    index,        \* index.json: the repos of the last fetch
    lastCall,     \* the last track_project or untrack_project call and how it ended
    fetchArgs,    \* fetch_repos' arguments: cfg.foundries and foundry_name
    fetchPc,      \* the caller's position in fetch_repos
    selected,     \* the local list foundries after the filter
    fetchTask,    \* fetchTask[k]: position, lister result and exception of _fetch_one(k)
    fetchLock,    \* 0 when free, else the _fetch_one task holding the lock
    all_repos,    \* the shared list all_repos
    fetchOut,     \* how fetch_repos ended: what it raised, what it returned
    saveCalls,    \* the arguments of the index.save_index calls made, in order
    configFile,   \* config.yaml: "absent" or its content
    configCall    \* the last init_config or save_config call and how it ended

syncVars == <<projects, max_workers, on_project, mainPc, nsubmitted, raisedExc,
              queue, pc, branch, exc, futExc, oplog, lock, result, calls>>

regVars == <<registry, index, lastCall>>

fetchVars == <<fetchArgs, fetchPc, selected, fetchTask, fetchLock, all_repos,
               fetchOut, saveCalls>>

configVars == <<configFile, configCall>>

\* What sync_projects never touches.
otherVars == <<regVars, fetchVars, configVars>>

vars == <<syncVars, otherVars>>

Tasks == 1..Len(projects)

\* ------------------------------------------------------- gitops wrappers

\* What subprocess.run hands back for clone, pull and push.
GitResults(op) ==
    {[returncode |-> 0, stdout |-> "", stderr |-> ""]}
    \cup {[returncode |-> 128, stdout |-> "", stderr |-> m] : m \in StderrTexts(op)}

\* What subprocess.run hands back for "git status --porcelain".
StatusResults ==
    { [returncode |-> 0, stdout |-> "", stderr |-> ""],
      [returncode |-> 0, stdout |-> "?? f", stderr |-> ""],
      [returncode |-> 128, stdout |-> "", stderr |-> "not a git repository"] }

\* gitops.is_dirty: bool(result.stdout.strip()); the return code is not read.
is_dirty(r) == r.stdout # ""

\* clone_repo, pull_repo, push_repo: raise GitError(result.stderr) on a
\* non-zero return code.
RaisesGitError(r) == r.returncode # 0

\* One entry of a task's call log: the function called, its arguments, the
\* return code of the git subprocess it ran (0 when it ran none), the
\* exception it raised with its text, and the value it returned.
Entry(op, args, rc, raised, msg, value) ==
    [op |-> op, args |-> args, rc |-> rc, raised |-> raised, msg |-> msg,
     value |-> value]

\* ------------------------------------------------------------- the pool

Max(a, b) == IF a >= b THEN a ELSE b

\* PoolSize as fetch_repos sizes its pool: one thread per submitted item.
PoolSizePerProject(mw) == Max(1, Len(projects))

\* PoolSize without the clamp: max_workers handed on as it came.
PoolSizeUnclamped(mw) == mw

\* PoolSize capped by the number of projects: min(max(1, max_workers), len(projects)).
PoolSizeCappedByList(mw) ==
    IF Max(1, mw) <= Len(projects) THEN Max(1, mw) ELSE Len(projects)

\* max(1, max_workers): the size handed to ThreadPoolExecutor.
PoolSize(mw) == Max(1, mw)

Running == {i \in Tasks : pc[i] \notin {"new", "queued", "done", "failed"}}

\* --------------------------------------------------------------- labels

\* StatusLabel with the error label built without the exception's text.
StatusLabelNoText(b, msg) ==
    CASE b = "cloned" -> "cloned"
      [] b = "skipped" -> "skipped (dirty)"
      [] b = "synced" -> "synced"
      [] OTHER -> "error: "

\* The status label given to on_project in each "with lock:" block.
StatusLabel(b, msg) ==
    CASE b = "cloned" -> "cloned"
      [] b = "skipped" -> "skipped (dirty)"
      [] b = "synced" -> "synced"
      [] OTHER -> "error: " \o msg

\* RecordOutcome with the cloned append made before clone_repo is known to
\* have succeeded: a failed clone is recorded as cloned and as errored.
RecordOutcomeCloneFirst(res, b, name, msg) ==
    CASE b = "cloned" -> [res EXCEPT !.cloned = Append(@, name)]
      [] b = "skipped" -> [res EXCEPT !.skipped = Append(@, name)]
      [] b = "synced" -> [res EXCEPT !.synced = Append(@, name)]
      [] b = "clone_error" ->
            [res EXCEPT !.cloned = Append(@, name), !.errored = Append(@, <<name, msg>>)]
      [] OTHER -> [res EXCEPT !.errored = Append(@, <<name, msg>>)]

\* RecordOutcome over collections kept free of duplicates: a name already in
\* the collection is not appended again.
RecordOutcomeNoDuplicates(res, b, name, msg) ==
    CASE b = "cloned" ->
            IF \E k \in DOMAIN res.cloned : res.cloned[k] = name
            THEN res ELSE [res EXCEPT !.cloned = Append(@, name)]
      [] b = "skipped" ->
            IF \E k \in DOMAIN res.skipped : res.skipped[k] = name
            THEN res ELSE [res EXCEPT !.skipped = Append(@, name)]
      [] b = "synced" ->
            IF \E k \in DOMAIN res.synced : res.synced[k] = name
            THEN res ELSE [res EXCEPT !.synced = Append(@, name)]
      [] OTHER ->
            IF \E k \in DOMAIN res.errored : res.errored[k][1] = name
            THEN res ELSE [res EXCEPT !.errored = Append(@, <<name, msg>>)]

\* The append made in each "with lock:" block.
RecordOutcome(res, b, name, msg) ==
    CASE b = "cloned" -> [res EXCEPT !.cloned = Append(@, name)]
      [] b = "skipped" -> [res EXCEPT !.skipped = Append(@, name)]
      [] b = "synced" -> [res EXCEPT !.synced = Append(@, name)]
      [] OTHER -> [res EXCEPT !.errored = Append(@, <<name, msg>>)]

\* ---------------------------------------------------------- str methods

\* A string the code takes apart is a sequence of one-character strings.

startswith(s, p) == Len(s) >= Len(p) /\ SubSeq(s, 1, Len(p)) = p

endswith(s, p) == Len(s) >= Len(p) /\ SubSeq(s, Len(s) - Len(p) + 1, Len(s)) = p

\* p in s
contains(s, p) == \E k \in 1..(Len(s) - Len(p) + 1) : SubSeq(s, k, k + Len(p) - 1) = p

\* s.find(p), counted from 1; 0 when p is not in s.
find(s, p) ==
    IF contains(s, p)
    THEN CHOOSE k \in 1..(Len(s) - Len(p) + 1) :
            /\ SubSeq(s, k, k + Len(p) - 1) = p
            /\ \A j \in 1..(k - 1) : SubSeq(s, j, j + Len(p) - 1) # p
    ELSE 0

RECURSIVE rstrip(_, _)
rstrip(s, c) ==
    IF s # <<>> /\ s[Len(s)] = c THEN rstrip(SubSeq(s, 1, Len(s) - 1), c) ELSE s

RECURSIVE lstrip(_, _)
lstrip(s, c) == IF s # <<>> /\ s[1] = c THEN lstrip(Tail(s), c) ELSE s

strip(s, c) == lstrip(rstrip(s, c), c)

removesuffix(s, p) ==
    IF p # <<>> /\ endswith(s, p) THEN SubSeq(s, 1, Len(s) - Len(p)) ELSE s

\* s.rsplit(c, 1)[-1] and s.split(c)[-1]: what follows the last c in s, all
\* of s when c is not in it.
LastPart(s, c) ==
    IF \E k \in DOMAIN s : s[k] = c
    THEN SubSeq(s, 1 + (CHOOSE k \in DOMAIN s :
                            s[k] = c /\ \A j \in DOMAIN s : s[j] = c => j <= k), Len(s))
    ELSE s

\* s up to, and without, its first character out of cs.
Before(s, cs) ==
    IF \E k \in DOMAIN s : s[k] \in cs
    THEN SubSeq(s, 1, (CHOOSE k \in DOMAIN s :
                         s[k] \in cs /\ \A j \in 1..(k - 1) : s[j] \notin cs) - 1)
    ELSE s

\* str.lower(), one character.
LowerChar(c) ==
    CASE c = "A" -> "a"
      [] c = "B" -> "b"
      [] OTHER -> c

lower(s) == [k \in DOMAIN s |-> LowerChar(s[k])]

\* ----------------------------------------------------- URLs and projects

SchemeSep == <<":", "/", "/">>
GitAt == <<"g", "i", "t", "@">>
DotGit == <<".", "g", "i", "t">>

\* "://" in s or s.startswith("git@")
_is_url(s) == contains(s, SchemeSep) \/ startswith(s, GitAt)

\* _SSH_RE.match(s): "git@", one or more characters other than ":", a ":",
\* one or more characters.
SshMatches(s) ==
    /\ startswith(s, GitAt)
    /\ find(s, <<":">>) >= Len(GitAt) + 2
    /\ find(s, <<":">>) < Len(s)

\* m.group(1)
SshGroup1(s) == SubSeq(s, find(s, <<":">>) + 1, Len(s))

\* urlparse(s).path: with a scheme, what follows the network location up to
\* the query or fragment; without one, s up to the query or fragment.
UrlPath(s) ==
    IF contains(s, SchemeSep)
    THEN LET rest == SubSeq(s, find(s, SchemeSep) + Len(SchemeSep), Len(s))
             netloc == Before(rest, {"/", "?", "#"})
         IN  Before(SubSeq(rest, Len(netloc) + 1, Len(rest)), {"?", "#"})
    ELSE Before(s, {"?", "#"})

Project(clone_url, name, path) == [clone_url |-> clone_url, name |-> name, path |-> path]

\* derive_project(clone_url): name and relative path from the URL.
derive_project(clone_url) ==
    LET path_part == IF SshMatches(clone_url) THEN SshGroup1(clone_url) ELSE UrlPath(clone_url)
        name == LastPart(removesuffix(strip(path_part, "/"), DotGit), "/")
    IN  Project(clone_url, name, name)

\* path=None: no sequence of characters.
None == <<"None">>

\* No track_project or untrack_project call was made yet.
NoCall == [op |-> "none", arg |-> None, path |-> None, raised |-> "none",
           before |-> <<>>, returned |-> None, saved |-> FALSE]

\* config.yaml does not exist.
AbsentFile == [exists |-> FALSE, text |-> ""]

\* No fetch_repos call was made.
NoFetch == [raised |-> "none", returned |-> None]

\* No init_config or save_config call was made yet.
NoConfigCall == [op |-> "none", force |-> FALSE, raised |-> "none", before |-> AbsentFile]

\* fetch_repos is not running.
FetchIdle ==
    /\ fetchArgs = [foundries |-> <<>>, foundry_name |-> ""]
    /\ fetchPc = "idle"
    /\ selected = <<>>
    /\ fetchTask = <<>>
    /\ fetchLock = 0
    /\ all_repos = <<>>
    /\ fetchOut = NoFetch
    /\ saveCalls = <<>>

\* No config.yaml and no call on it.
ConfigIdle ==
    /\ configFile = AbsentFile
    /\ configCall = NoConfigCall

\* ----------------------------------------------------------------- Init

Init ==
    /\ projects \in ProjectLists
    /\ max_workers \in (-1)..MaxWorkers
    /\ on_project \in BOOLEAN
    /\ mainPc = "executor"
    /\ nsubmitted = 0
    /\ raisedExc = "none"
    /\ queue = <<>>
    /\ pc = [i \in Tasks |-> "new"]
    /\ branch = [i \in Tasks |-> "none"]
    /\ exc = [i \in Tasks |-> ""]
    /\ futExc = [i \in Tasks |-> "none"]
    /\ oplog = [i \in Tasks |-> <<>>]
    /\ lock = 0
    /\ result = [cloned |-> <<>>, synced |-> <<>>, skipped |-> <<>>, errored |-> <<>>]
    /\ calls = <<>>
    /\ registry = <<>>
    /\ index = <<>>
    /\ lastCall = NoCall
    /\ FetchIdle
    /\ ConfigIdle

\* ------------------------------------------------------ the caller's thread

\* ThreadPoolExecutor(max_workers=max(1, max_workers)): the constructor
\* raises ValueError for a size below 1.
CreateExecutor ==
    /\ mainPc = "executor"
    /\ IF PoolSize(max_workers) <= 0
       THEN mainPc' = "raised" /\ raisedExc' = "ValueError"
       ELSE mainPc' = "run" /\ UNCHANGED raisedExc
    /\ UNCHANGED <<otherVars, projects, max_workers, on_project, nsubmitted, queue, pc,
                   branch, exc, futExc, oplog, lock, result, calls>>

\* executor.submit(_sync_one, p) for the next project of the list.
Submit ==
    /\ mainPc = "run"
    /\ nsubmitted < Len(projects)
    /\ nsubmitted' = nsubmitted + 1
    /\ queue' = Append(queue, nsubmitted + 1)
    /\ pc' = [pc EXCEPT ![nsubmitted + 1] = "queued"]
    /\ UNCHANGED <<otherVars, projects, max_workers, on_project, mainPc, raisedExc,
                   branch, exc, futExc, oplog, lock, result, calls>>

\* ResultRaises with an executor that is not a context manager: the
\* exception goes to the caller at once, nothing is joined.
ResultRaisesAtOnce ==
    /\ mainPc = "run"
    /\ nsubmitted = Len(projects)
    /\ \E i \in Tasks :
        /\ pc[i] = "failed"
        /\ raisedExc' = futExc[i]
    /\ mainPc' = "raised"
    /\ UNCHANGED <<otherVars, projects, max_workers, on_project, nsubmitted, queue, pc,
                   branch, exc, futExc, oplog, lock, result, calls>>

\* for future in as_completed(futures): future.result() meets a future that
\* holds an exception and re-raises it, leaving the with block.
ResultRaises ==
    /\ mainPc = "run"
    /\ nsubmitted = Len(projects)
    /\ \E i \in Tasks :
        /\ pc[i] = "failed"
        /\ raisedExc' = futExc[i]
    /\ mainPc' = "shutdown"
    /\ UNCHANGED <<otherVars, projects, max_workers, on_project, nsubmitted, queue, pc,
                   branch, exc, futExc, oplog, lock, result, calls>>

\* The as_completed loop has seen every future and none held an exception.
LoopEnds ==
    /\ mainPc = "run"
    /\ nsubmitted = Len(projects)
    /\ \A i \in Tasks : pc[i] = "done"
    /\ mainPc' = "shutdown"
    /\ UNCHANGED <<otherVars, projects, max_workers, on_project, nsubmitted, raisedExc,
                   queue, pc, branch, exc, futExc, oplog, lock, result, calls>>

\* Shutdown as executor.shutdown(wait=False): the caller does not join.
ShutdownNoWait ==
    /\ mainPc = "shutdown"
    /\ mainPc' = IF raisedExc = "none" THEN "returned" ELSE "raised"
    /\ UNCHANGED <<otherVars, projects, max_workers, on_project, nsubmitted, raisedExc,
                   queue, pc, branch, exc, futExc, oplog, lock, result, calls>>

\* Leaving the with block: executor.shutdown(wait=True) joins the workers,
\* then sync_projects returns result or the exception goes on to the caller.
Shutdown ==
    /\ mainPc = "shutdown"
    /\ \A i \in Tasks : pc[i] \in {"done", "failed"}
    /\ mainPc' = IF raisedExc = "none" THEN "returned" ELSE "raised"
    /\ UNCHANGED <<otherVars, projects, max_workers, on_project, nsubmitted, raisedExc,
                   queue, pc, branch, exc, futExc, oplog, lock, result, calls>>

\* ------------------------------------------------------------ _sync_one

\* A pool thread takes the oldest work item and enters _sync_one, which reads
\* Path(expanded).exists().
StartTask(i) ==
    /\ queue # <<>>
    /\ i = Head(queue)
    /\ Cardinality(Running) < PoolSize(max_workers)
    /\ queue' = Tail(queue)
    /\ \E e \in BOOLEAN :
        /\ pc' = [pc EXCEPT ![i] = IF e THEN "is_dirty" ELSE "clone"]
        /\ oplog' = [oplog EXCEPT ![i] = Append(@, Entry("exists", <<projects[i].path>>, 0, "none", "", e))]
    /\ UNCHANGED <<otherVars, projects, max_workers, on_project, mainPc, nsubmitted,
                   raisedExc, branch, exc, futExc, lock, result, calls>>

\* Clone without the except GitError clause: the GitError leaves _sync_one
\* and is stored in the task's future.
CloneUncaught(i) ==
    /\ pc[i] = "clone"
    /\ \/ /\ oplog' = [oplog EXCEPT ![i] = Append(@, Entry("clone", <<projects[i].clone_url, projects[i].path>>, 0, "OSError", "", FALSE))]
          /\ pc' = [pc EXCEPT ![i] = "failed"]
          /\ futExc' = [futExc EXCEPT ![i] = "OSError"]
          /\ UNCHANGED <<branch, exc>>
       \/ \E r \in GitResults("clone") :
            IF RaisesGitError(r)
            THEN /\ oplog' = [oplog EXCEPT ![i] = Append(@, Entry("clone", <<projects[i].clone_url, projects[i].path>>, r.returncode, "GitError", r.stderr, FALSE))]
                 /\ pc' = [pc EXCEPT ![i] = "failed"]
                 /\ futExc' = [futExc EXCEPT ![i] = "GitError"]
                 /\ UNCHANGED <<branch, exc>>
            ELSE /\ oplog' = [oplog EXCEPT ![i] = Append(@, Entry("clone", <<projects[i].clone_url, projects[i].path>>, r.returncode, "none", "", FALSE))]
                 /\ pc' = [pc EXCEPT ![i] = "lock"]
                 /\ branch' = [branch EXCEPT ![i] = "cloned"]
                 /\ UNCHANGED <<exc, futExc>>
    /\ UNCHANGED <<otherVars, projects, max_workers, on_project, mainPc, nsubmitted,
                   raisedExc, queue, lock, result, calls>>

\* Clone with the two arguments of clone_repo in the wrong order.
CloneArgsSwapped(i) ==
    /\ pc[i] = "clone"
    /\ \/ /\ oplog' = [oplog EXCEPT ![i] = Append(@, Entry("clone", <<projects[i].path, projects[i].clone_url>>, 0, "OSError", "", FALSE))]
          /\ pc' = [pc EXCEPT ![i] = "failed"]
          /\ futExc' = [futExc EXCEPT ![i] = "OSError"]
          /\ UNCHANGED <<branch, exc>>
       \/ \E r \in GitResults("clone") :
            IF RaisesGitError(r)
            THEN /\ oplog' = [oplog EXCEPT ![i] = Append(@, Entry("clone", <<projects[i].path, projects[i].clone_url>>, r.returncode, "GitError", r.stderr, FALSE))]
                 /\ pc' = [pc EXCEPT ![i] = "lock"]
                 /\ branch' = [branch EXCEPT ![i] = "clone_error"]
                 /\ exc' = [exc EXCEPT ![i] = r.stderr]
                 /\ UNCHANGED futExc
            ELSE /\ oplog' = [oplog EXCEPT ![i] = Append(@, Entry("clone", <<projects[i].path, projects[i].clone_url>>, r.returncode, "none", "", FALSE))]
                 /\ pc' = [pc EXCEPT ![i] = "lock"]
                 /\ branch' = [branch EXCEPT ![i] = "cloned"]
                 /\ UNCHANGED <<exc, futExc>>
    /\ UNCHANGED <<otherVars, projects, max_workers, on_project, mainPc, nsubmitted,
                   raisedExc, queue, lock, result, calls>>

\* clone_repo(project.clone_url, project.path) inside try/except GitError.
\* parent.mkdir may raise OSError, which is no GitError and leaves _sync_one.
Clone(i) ==
    /\ pc[i] = "clone"
    /\ \/ /\ oplog' = [oplog EXCEPT ![i] = Append(@, Entry("clone", <<projects[i].clone_url, projects[i].path>>, 0, "OSError", "", FALSE))]
          /\ pc' = [pc EXCEPT ![i] = "failed"]
          /\ futExc' = [futExc EXCEPT ![i] = "OSError"]
          /\ UNCHANGED <<branch, exc>>
       \/ \E r \in GitResults("clone") :
            IF RaisesGitError(r)
            THEN /\ oplog' = [oplog EXCEPT ![i] = Append(@, Entry("clone", <<projects[i].clone_url, projects[i].path>>, r.returncode, "GitError", r.stderr, FALSE))]
                 /\ pc' = [pc EXCEPT ![i] = "lock"]
                 /\ branch' = [branch EXCEPT ![i] = "clone_error"]
                 /\ exc' = [exc EXCEPT ![i] = r.stderr]
                 /\ UNCHANGED futExc
            ELSE /\ oplog' = [oplog EXCEPT ![i] = Append(@, Entry("clone", <<projects[i].clone_url, projects[i].path>>, r.returncode, "none", "", FALSE))]
                 /\ pc' = [pc EXCEPT ![i] = "lock"]
                 /\ branch' = [branch EXCEPT ![i] = "cloned"]
                 /\ UNCHANGED <<exc, futExc>>
    /\ UNCHANGED <<otherVars, projects, max_workers, on_project, mainPc, nsubmitted,
                   raisedExc, queue, lock, result, calls>>

\* IsDirty without the early return: a dirty tree is pulled all the same.
IsDirtyNoReturn(i) ==
    /\ pc[i] = "is_dirty"
    /\ \E r \in StatusResults :
        /\ oplog' = [oplog EXCEPT ![i] = Append(@, Entry("is_dirty", <<projects[i].path>>, r.returncode, "none", "", is_dirty(r)))]
        /\ pc' = [pc EXCEPT ![i] = "pull"]
        /\ UNCHANGED branch
    /\ UNCHANGED <<otherVars, projects, max_workers, on_project, mainPc, nsubmitted,
                   raisedExc, queue, exc, futExc, lock, result, calls>>

\* if is_dirty(project.path): ... return
IsDirty(i) ==
    /\ pc[i] = "is_dirty"
    /\ \E r \in StatusResults :
        /\ oplog' = [oplog EXCEPT ![i] = Append(@, Entry("is_dirty", <<projects[i].path>>, r.returncode, "none", "", is_dirty(r)))]
        /\ IF is_dirty(r)
           THEN /\ pc' = [pc EXCEPT ![i] = "lock"]
                /\ branch' = [branch EXCEPT ![i] = "skipped"]
           ELSE /\ pc' = [pc EXCEPT ![i] = "pull"]
                /\ UNCHANGED branch
    /\ UNCHANGED <<otherVars, projects, max_workers, on_project, mainPc, nsubmitted,
                   raisedExc, queue, exc, futExc, lock, result, calls>>

\* Pull in a try block of its own: its GitError is noted and push_repo is
\* called all the same.
PullThenPushAnyway(i) ==
    /\ pc[i] = "pull"
    /\ \E r \in GitResults("pull") :
        /\ pc' = [pc EXCEPT ![i] = "push"]
        /\ IF RaisesGitError(r)
           THEN /\ oplog' = [oplog EXCEPT ![i] = Append(@, Entry("pull", <<projects[i].path>>, r.returncode, "GitError", r.stderr, FALSE))]
                /\ exc' = [exc EXCEPT ![i] = r.stderr]
           ELSE /\ oplog' = [oplog EXCEPT ![i] = Append(@, Entry("pull", <<projects[i].path>>, r.returncode, "none", "", FALSE))]
                /\ UNCHANGED exc
        /\ UNCHANGED branch
    /\ UNCHANGED <<otherVars, projects, max_workers, on_project, mainPc, nsubmitted,
                   raisedExc, queue, futExc, lock, result, calls>>

\* Pull with _sync_one reading the loop's project variable instead of its own
\* argument: every task pulls the path of the last project of the list.
PullLateBound(i) ==
    /\ pc[i] = "pull"
    /\ \E r \in GitResults("pull") :
        IF RaisesGitError(r)
        THEN /\ oplog' = [oplog EXCEPT ![i] = Append(@, Entry("pull", <<projects[Len(projects)].path>>, r.returncode, "GitError", r.stderr, FALSE))]
             /\ pc' = [pc EXCEPT ![i] = "lock"]
             /\ branch' = [branch EXCEPT ![i] = "sync_error"]
             /\ exc' = [exc EXCEPT ![i] = r.stderr]
        ELSE /\ oplog' = [oplog EXCEPT ![i] = Append(@, Entry("pull", <<projects[Len(projects)].path>>, r.returncode, "none", "", FALSE))]
             /\ pc' = [pc EXCEPT ![i] = "push"]
             /\ UNCHANGED <<branch, exc>>
    /\ UNCHANGED <<otherVars, projects, max_workers, on_project, mainPc, nsubmitted,
                   raisedExc, queue, futExc, lock, result, calls>>

\* Pull with one retry: a first GitError is swallowed and pull_repo is called
\* again.
PullRetry(i) ==
    /\ pc[i] = "pull"
    /\ \E r \in GitResults("pull") :
        IF RaisesGitError(r)
        THEN /\ oplog' = [oplog EXCEPT ![i] = Append(@, Entry("pull", <<projects[i].path>>, r.returncode, "GitError", r.stderr, FALSE))]
             /\ IF \E k \in DOMAIN oplog[i] : oplog[i][k].op = "pull"
                THEN /\ pc' = [pc EXCEPT ![i] = "lock"]
                     /\ branch' = [branch EXCEPT ![i] = "sync_error"]
                     /\ exc' = [exc EXCEPT ![i] = r.stderr]
                ELSE UNCHANGED <<pc, branch, exc>>
        ELSE /\ oplog' = [oplog EXCEPT ![i] = Append(@, Entry("pull", <<projects[i].path>>, r.returncode, "none", "", FALSE))]
             /\ pc' = [pc EXCEPT ![i] = "push"]
             /\ UNCHANGED <<branch, exc>>
    /\ UNCHANGED <<otherVars, projects, max_workers, on_project, mainPc, nsubmitted,
                   raisedExc, queue, futExc, lock, result, calls>>

\* pull_repo(project.path) inside try/except GitError.
Pull(i) ==
    /\ pc[i] = "pull"
    /\ \E r \in GitResults("pull") :
        IF RaisesGitError(r)
        THEN /\ oplog' = [oplog EXCEPT ![i] = Append(@, Entry("pull", <<projects[i].path>>, r.returncode, "GitError", r.stderr, FALSE))]
             /\ pc' = [pc EXCEPT ![i] = "lock"]
             /\ branch' = [branch EXCEPT ![i] = "sync_error"]
             /\ exc' = [exc EXCEPT ![i] = r.stderr]
        ELSE /\ oplog' = [oplog EXCEPT ![i] = Append(@, Entry("pull", <<projects[i].path>>, r.returncode, "none", "", FALSE))]
             /\ pc' = [pc EXCEPT ![i] = "push"]
             /\ UNCHANGED <<branch, exc>>
    /\ UNCHANGED <<otherVars, projects, max_workers, on_project, mainPc, nsubmitted,
                   raisedExc, queue, futExc, lock, result, calls>>

\* Push with result.synced.append placed before push_repo: a project whose
\* push fails is recorded as synced.
PushRecordedFirst(i) ==
    /\ pc[i] = "push"
    /\ \E r \in GitResults("push") :
        /\ pc' = [pc EXCEPT ![i] = "lock"]
        /\ branch' = [branch EXCEPT ![i] = "synced"]
        /\ IF RaisesGitError(r)
           THEN /\ oplog' = [oplog EXCEPT ![i] = Append(@, Entry("push", <<projects[i].path>>, r.returncode, "GitError", r.stderr, FALSE))]
                /\ exc' = [exc EXCEPT ![i] = r.stderr]
           ELSE /\ oplog' = [oplog EXCEPT ![i] = Append(@, Entry("push", <<projects[i].path>>, r.returncode, "none", "", FALSE))]
                /\ UNCHANGED exc
    /\ UNCHANGED <<otherVars, projects, max_workers, on_project, mainPc, nsubmitted,
                   raisedExc, queue, futExc, lock, result, calls>>

\* push_repo(project.path) inside the same try/except GitError.
Push(i) ==
    /\ pc[i] = "push"
    /\ \E r \in GitResults("push") :
        /\ pc' = [pc EXCEPT ![i] = "lock"]
        /\ IF RaisesGitError(r)
           THEN /\ oplog' = [oplog EXCEPT ![i] = Append(@, Entry("push", <<projects[i].path>>, r.returncode, "GitError", r.stderr, FALSE))]
                /\ branch' = [branch EXCEPT ![i] = "sync_error"]
                /\ exc' = [exc EXCEPT ![i] = r.stderr]
           ELSE /\ oplog' = [oplog EXCEPT ![i] = Append(@, Entry("push", <<projects[i].path>>, r.returncode, "none", "", FALSE))]
                /\ branch' = [branch EXCEPT ![i] = "synced"]
                /\ UNCHANGED exc
    /\ UNCHANGED <<otherVars, projects, max_workers, on_project, mainPc, nsubmitted,
                   raisedExc, queue, futExc, lock, result, calls>>

\* Acquire without the lock: the block is entered whoever holds it.
AcquireNoLock(i) ==
    /\ pc[i] = "lock"
    /\ lock' = i
    /\ pc' = [pc EXCEPT ![i] = "append"]
    /\ UNCHANGED <<otherVars, projects, max_workers, on_project, mainPc, nsubmitted,
                   raisedExc, queue, branch, exc, futExc, oplog, result, calls>>

\* with lock: (entering)
Acquire(i) ==
    /\ pc[i] = "lock"
    /\ lock = 0
    /\ lock' = i
    /\ pc' = [pc EXCEPT ![i] = "append"]
    /\ UNCHANGED <<otherVars, projects, max_workers, on_project, mainPc, nsubmitted,
                   raisedExc, queue, branch, exc, futExc, oplog, result, calls>>

\* AppendResult with the caught exception kept in one variable shared by the
\* workers: the text recorded may be the one another task caught.
AppendResultSharedExc(i) ==
    /\ pc[i] = "append"
    /\ \E j \in Tasks :
        /\ j = i \/ exc[j] # ""
        /\ result' = RecordOutcome(result, branch[i], projects[i].name, exc[j])
    /\ pc' = [pc EXCEPT ![i] = IF on_project THEN "callback" ELSE "release"]
    /\ UNCHANGED <<otherVars, projects, max_workers, on_project, mainPc, nsubmitted,
                   raisedExc, queue, branch, exc, futExc, oplog, lock, calls>>

\* AppendResult with on_project called after the with block: the lock is
\* given back before the callback runs.
AppendResultThenUnlock(i) ==
    /\ pc[i] = "append"
    /\ result' = RecordOutcome(result, branch[i], projects[i].name, exc[i])
    /\ pc' = [pc EXCEPT ![i] = IF on_project THEN "callback" ELSE "release"]
    /\ lock' = IF on_project THEN 0 ELSE lock
    /\ UNCHANGED <<otherVars, projects, max_workers, on_project, mainPc, nsubmitted,
                   raisedExc, queue, branch, exc, futExc, oplog, calls>>

\* result.<collection>.append(...), then "if on_project:".
AppendResult(i) ==
    /\ pc[i] = "append"
    /\ result' = RecordOutcome(result, branch[i], projects[i].name, exc[i])
    /\ pc' = [pc EXCEPT ![i] = IF on_project THEN "callback" ELSE "release"]
    /\ UNCHANGED <<otherVars, projects, max_workers, on_project, mainPc, nsubmitted,
                   raisedExc, queue, branch, exc, futExc, oplog, lock, calls>>

\* on_project(project.name, <label>) runs and returns.
Callback(i) ==
    /\ pc[i] = "callback"
    /\ calls' = Append(calls, <<projects[i].name, StatusLabel(branch[i], exc[i])>>)
    /\ pc' = [pc EXCEPT ![i] = "release"]
    /\ UNCHANGED <<otherVars, projects, max_workers, on_project, mainPc, nsubmitted,
                   raisedExc, queue, branch, exc, futExc, oplog, lock, result>>

\* Leaving the with block releases the lock; _sync_one returns.
Release(i) ==
    /\ pc[i] = "release"
    /\ lock' = 0
    /\ pc' = [pc EXCEPT ![i] = "done"]
    /\ UNCHANGED <<otherVars, projects, max_workers, on_project, mainPc, nsubmitted,
                   raisedExc, queue, branch, exc, futExc, oplog, result, calls>>

Next ==
    \/ CreateExecutor
    \/ Submit
    \/ ResultRaises
    \/ LoopEnds
    \/ Shutdown
    \/ \E i \in Tasks : StartTask(i)
    \/ \E i \in Tasks : Clone(i)
    \/ \E i \in Tasks : IsDirty(i)
    \/ \E i \in Tasks : Pull(i)
    \/ \E i \in Tasks : Push(i)
    \/ \E i \in Tasks : Acquire(i)
    \/ \E i \in Tasks : AppendResult(i)
    \/ \E i \in Tasks : Callback(i)
    \/ \E i \in Tasks : Release(i)

Spec == Init /\ [][Next]_vars

\* Threads run, and every git subprocess and callback comes back in the end.
FairSpec == Spec /\ WF_vars(Next)

\* ------------------------------------------------- a callback that raises

\* str(exc) of a GitError that on_project raises.
CallbackErrorText == "callback failed"

\* on_project(project.name, "cloned") or on_project(project.name, "synced")
\* raises GitError. Both calls are inside the try block, so the with block is
\* left (the lock is given back) and "except GitError as exc" takes the
\* exception: the task goes on to the handler's "with lock:" with str(exc).
CallbackRaisesInTry(i) ==
    /\ pc[i] = "callback"
    /\ branch[i] \in {"cloned", "synced"}
    /\ calls' = Append(calls, <<projects[i].name, StatusLabel(branch[i], exc[i])>>)
    /\ lock' = 0
    /\ branch' = [branch EXCEPT ![i] = IF @ = "cloned" THEN "clone_error" ELSE "sync_error"]
    /\ exc' = [exc EXCEPT ![i] = CallbackErrorText]
    /\ pc' = [pc EXCEPT ![i] = "lock"]
    /\ UNCHANGED <<otherVars, projects, max_workers, on_project, mainPc, nsubmitted,
                   raisedExc, queue, futExc, oplog, result>>

\* on_project raises and no except clause takes it: any exception raised in
\* the skipped branch or in an except GitError handler, and an exception
\* that is no GitError anywhere. The with block gives the lock back and the
\* exception ends _sync_one; the future holds it.
CallbackRaisesOut(i) ==
    /\ pc[i] = "callback"
    /\ \E e \in {"GitError", "RuntimeError"} :
        /\ (e = "GitError") => branch[i] \notin {"cloned", "synced"}
        /\ futExc' = [futExc EXCEPT ![i] = e]
    /\ calls' = Append(calls, <<projects[i].name, StatusLabel(branch[i], exc[i])>>)
    /\ lock' = 0
    /\ pc' = [pc EXCEPT ![i] = "failed"]
    /\ UNCHANGED <<otherVars, projects, max_workers, on_project, mainPc, nsubmitted,
                   raisedExc, queue, branch, exc, oplog, result>>

\* sync_projects called with a callback that may raise.
RaiseInit == Init /\ on_project

RaiseNext ==
    \/ CreateExecutor
    \/ Submit
    \/ ResultRaises
    \/ LoopEnds
    \/ Shutdown
    \/ \E i \in Tasks : StartTask(i)
    \/ \E i \in Tasks : Clone(i)
    \/ \E i \in Tasks : IsDirty(i)
    \/ \E i \in Tasks : Pull(i)
    \/ \E i \in Tasks : Push(i)
    \/ \E i \in Tasks : Acquire(i)
    \/ \E i \in Tasks : AppendResult(i)
    \/ \E i \in Tasks : Callback(i)
    \/ \E i \in Tasks : Release(i)
    \/ \E i \in Tasks : CallbackRaisesInTry(i)
    \/ \E i \in Tasks : CallbackRaisesOut(i)

RaiseSpec == RaiseInit /\ [][RaiseNext]_vars

\* ------------------------------------------------- the registry: inputs

\* How many projects the registry may hold.
MaxTracked == 3

Https == <<"h", "t", "t", "p", "s">> \o SchemeSep
Host == <<"g", "i", "t", "h", "u", "b", ".", "c", "o", "m">>

\* https://github.com/u/a.git
UrlUA == Https \o Host \o <<"/", "u", "/", "a">> \o DotGit
\* https://github.com/v/a.git
UrlVA == Https \o Host \o <<"/", "v", "/", "a">> \o DotGit
\* git@github.com:u/a.git
SshUA == GitAt \o Host \o <<":", "u", "/", "a">> \o DotGit
\* git@github.com:u/ab.git
SshUAB == GitAt \o Host \o <<":", "u", "/", "a", "b">> \o DotGit
\* git@github.com:v/a.git
SshVA == GitAt \o Host \o <<":", "v", "/", "a">> \o DotGit
\* https://github.com/u/ab/
UrlUABSlash == Https \o Host \o <<"/", "u", "/", "a", "b", "/">>

RemoteRepo(name, clone_url) == [name |-> name, clone_url |-> clone_url]

\* The contents index.json may have: none, two repos, and three of which two
\* share a name.
IndexChoices ==
    { <<>>,
      <<RemoteRepo(<<"a">>, SshUA), RemoteRepo(<<"a", "b">>, SshUAB)>>,
      <<RemoteRepo(<<"a">>, SshUA), RemoteRepo(<<"a", "b">>, SshUAB), RemoteRepo(<<"a">>, SshVA)>> }

\* The name_or_url arguments tried: clone URLs and repo names.
TrackArgs ==
    {UrlUA, UrlVA, SshUA, UrlUABSlash, <<"a">>, <<"a", "b">>, <<"A">>, <<"B">>, <<"c">>}

\* The --path values tried.
TrackPaths == {None, <<"x">>}

\* The names untrack is tried with.
UntrackArgs == {<<"a">>, <<"a", "b">>, <<"c">>}

\* ----------------------------------------------- track_project, untrack_project

\* ResolveName without the exact-match pass: substring matches only.
ResolveNameSubstringOnly(idx, name) ==
    LET Partial(r) == contains(lower(r.name), lower(name))
        partial == SelectSeq(idx, Partial)
    IN  CASE idx = <<>> -> [raised |-> "Index is empty", clone_url |-> None]
          [] idx # <<>> /\ Len(partial) = 1 ->
                [raised |-> "none", clone_url |-> partial[1].clone_url]
          [] idx # <<>> /\ Len(partial) > 1 ->
                [raised |-> "Ambiguous", clone_url |-> None]
          [] OTHER -> [raised |-> "No repo named", clone_url |-> None]

\* The non-URL branch of track_project: the clone URL the index gives for a
\* repo name, or the ValueError raised.
ResolveName(idx, name) ==
    LET Exact(r) == r.name = name
        Partial(r) == contains(lower(r.name), lower(name))
        exact == SelectSeq(idx, Exact)
        partial == SelectSeq(idx, Partial)
    IN  CASE idx = <<>> -> [raised |-> "Index is empty", clone_url |-> None]
          [] idx # <<>> /\ Len(exact) = 1 -> [raised |-> "none", clone_url |-> exact[1].clone_url]
          [] idx # <<>> /\ Len(exact) > 1 -> [raised |-> "Ambiguous", clone_url |-> None]
          [] idx # <<>> /\ Len(exact) = 0 /\ Len(partial) = 1 ->
                [raised |-> "none", clone_url |-> partial[1].clone_url]
          [] idx # <<>> /\ Len(exact) = 0 /\ Len(partial) > 1 ->
                [raised |-> "Ambiguous", clone_url |-> None]
          [] OTHER -> [raised |-> "No repo named", clone_url |-> None]

\* track_project without the "Already tracking" check.
track_projectNoDuplicateCheck(reg, idx, name_or_url, path) ==
    LET res == IF _is_url(name_or_url)
               THEN [raised |-> "none", clone_url |-> name_or_url]
               ELSE ResolveName(idx, name_or_url)
        clone_url == res.clone_url
        parsed_name == LastPart(removesuffix(rstrip(clone_url, "/"), DotGit), "/")
        project == IF path # None
                   THEN Project(clone_url, parsed_name, path)
                   ELSE derive_project(clone_url)
    IN  IF res.raised # "none"
        THEN [raised |-> res.raised, registry |-> reg, returned |-> None, saved |-> FALSE]
        ELSE [raised |-> "none", registry |-> Append(reg, project), returned |-> project,
              saved |-> TRUE]

\* track_project(cfg, name_or_url, path) on the saved projects reg and the
\* index idx: the ValueError raised or "none", the contents of projects.json
\* afterwards, the project returned, and whether save_projects was called.
track_project(reg, idx, name_or_url, path) ==
    LET res == IF _is_url(name_or_url)
               THEN [raised |-> "none", clone_url |-> name_or_url]
               ELSE ResolveName(idx, name_or_url)
        clone_url == res.clone_url
        parsed_name == LastPart(removesuffix(rstrip(clone_url, "/"), DotGit), "/")
        project == IF path # None
                   THEN Project(clone_url, parsed_name, path)
                   ELSE derive_project(clone_url)
    IN  CASE res.raised # "none" ->
                [raised |-> res.raised, registry |-> reg, returned |-> None, saved |-> FALSE]
          [] res.raised = "none" /\ \E k \in DOMAIN reg : reg[k].clone_url = clone_url ->
                [raised |-> "Already tracking", registry |-> reg, returned |-> None,
                 saved |-> FALSE]
          [] OTHER ->
                [raised |-> "none", registry |-> Append(reg, project), returned |-> project,
                 saved |-> TRUE]

\* untrack_project removing only the first project of that name.
untrack_projectFirstOnly(reg, name) ==
    IF \E k \in DOMAIN reg : reg[k].name = name
    THEN LET first == CHOOSE k \in DOMAIN reg :
                        reg[k].name = name /\ \A j \in 1..(k - 1) : reg[j].name # name
         IN  [raised |-> "none",
              registry |-> SubSeq(reg, 1, first - 1) \o SubSeq(reg, first + 1, Len(reg)),
              saved |-> TRUE]
    ELSE [raised |-> "No project named", registry |-> reg, saved |-> FALSE]

\* untrack_project(cfg, name) on the saved projects reg.
untrack_project(reg, name) ==
    LET Keep(p) == p.name # name
        filtered == SelectSeq(reg, Keep)
    IN  IF Len(filtered) = Len(reg)
        THEN [raised |-> "No project named", registry |-> reg, saved |-> FALSE]
        ELSE [raised |-> "none", registry |-> filtered, saved |-> TRUE]

\* cfg.clone_root after expanduser(): /r
CloneRoot == <<"/", "r">>

\* clone_root / path, as pathlib joins: an absolute path replaces the root.
PathJoin(root, path) ==
    IF startswith(path, <<"/">>) THEN path ELSE rstrip(root, "/") \o <<"/">> \o path

\* The list the sync command hands to sync_projects: the tracked projects
\* with their paths resolved against the clone root.
resolved(reg) ==
    [k \in DOMAIN reg |->
        Project(reg[k].clone_url, reg[k].name, PathJoin(CloneRoot, reg[k].path))]

\* Nothing is syncing: the sync variables at rest.
SyncIdle ==
    /\ projects = <<>>
    /\ max_workers = 1
    /\ on_project = FALSE
    /\ mainPc = "idle"
    /\ nsubmitted = 0
    /\ raisedExc = "none"
    /\ queue = <<>>
    /\ pc = <<>>
    /\ branch = <<>>
    /\ exc = <<>>
    /\ futExc = <<>>
    /\ oplog = <<>>
    /\ lock = 0
    /\ result = [cloned |-> <<>>, synced |-> <<>>, skipped |-> <<>>, errored |-> <<>>]
    /\ calls = <<>>

\* No projects.json yet (load_projects gives []), some index.json or none.
RegInit ==
    /\ SyncIdle
    /\ FetchIdle
    /\ ConfigIdle
    /\ registry = <<>>
    /\ index \in IndexChoices
    /\ lastCall = NoCall

\* One "git-projects track" call.
Track ==
    \E name_or_url \in TrackArgs, path \in TrackPaths :
        LET out == track_project(registry, index, name_or_url, path)
        IN  /\ Len(out.registry) <= MaxTracked
            /\ registry' = out.registry
            /\ lastCall' = [op |-> "track", arg |-> name_or_url, path |-> path,
                            raised |-> out.raised, before |-> registry,
                            returned |-> out.returned, saved |-> out.saved]
            /\ UNCHANGED <<syncVars, index, fetchVars, configVars>>

\* One "git-projects untrack" call.
Untrack ==
    \E name \in UntrackArgs :
        LET out == untrack_project(registry, name)
        IN  /\ registry' = out.registry
            /\ lastCall' = [op |-> "untrack", arg |-> name, path |-> None,
                            raised |-> out.raised, before |-> registry,
                            returned |-> None, saved |-> out.saved]
            /\ UNCHANGED <<syncVars, index, fetchVars, configVars>>

RegNext == Track \/ Untrack

RegSpec == RegInit /\ [][RegNext]_vars

\* ------------------------------------------------------------ fetch_repos

\* How many foundries cfg.foundries may hold.
MaxFoundries == 2

FoundryConfig(name, type) == [name |-> name, type |-> type]

\* The foundries a config may list: one of each known type and one of a
\* type no lister exists for.
FoundryPool ==
    { FoundryConfig("github", "github"), FoundryConfig("my-gitlab", "gitlab"),
      FoundryConfig("my-gitea", "gitea"), FoundryConfig("old", "svn") }

FoundryLists == UNION {[1..n -> FoundryPool] : n \in 0..MaxFoundries}

\* The foundry_name arguments tried; "" is the falsy one (None or empty).
FoundryNames == {"", "github", "nonexistent"}

\* The lister _fetch_one picks for a foundry type, "none" for an unknown type.
list_fn(type) ==
    CASE type = "github" -> "github.list_repos"
      [] type = "gitlab" -> "gitlab.list_repos"
      [] type = "gitea" -> "gitea.list_repos"
      [] OTHER -> "none"

\* A repo a lister returns; pushed_at 1 is older than 2.
FetchedRepo(fc, name, pushed_at) ==
    [name |-> name, clone_url |-> fc.name \o ":" \o name, pushed_at |-> pushed_at]

\* What a foundry's lister may return: nothing, one repo, or a newer and an
\* older one in that order.
ListerReturns(fc) ==
    { <<>>,
      <<FetchedRepo(fc, "proj-a", 2)>>,
      <<FetchedRepo(fc, "proj-a", 2), FetchedRepo(fc, "proj-b", 1)>> }

\* What a lister may raise: ValueError (token not set) or httpx.HTTPStatusError.
ListerRaises == {"ValueError", "HTTPStatusError"}

\* sorted-so-far with r put behind every entry that is not newer.
RECURSIVE InsertByPushedAt(_, _)
InsertByPushedAt(sorted, r) ==
    IF sorted = <<>> THEN <<r>>
    ELSE IF Head(sorted).pushed_at <= r.pushed_at
         THEN <<Head(sorted)>> \o InsertByPushedAt(Tail(sorted), r)
         ELSE <<r>> \o sorted

\* all_repos.sort(key=lambda r: r.pushed_at): ascending and stable.
RECURSIVE sort(_)
sort(repos) ==
    IF repos = <<>> THEN <<>>
    ELSE InsertByPushedAt(sort(SubSeq(repos, 1, Len(repos) - 1)), repos[Len(repos)])

FetchTasks == DOMAIN fetchTask

FetchRunning == {k \in FetchTasks : fetchTask[k].pc \in {"list", "lock", "extend"}}

\* One fetch_repos call on some config, with some index.json on disk.
FetchInit ==
    /\ SyncIdle
    /\ ConfigIdle
    /\ registry = <<>>
    /\ lastCall = NoCall
    /\ index \in IndexChoices
    /\ fetchArgs \in [foundries : FoundryLists, foundry_name : FoundryNames]
    /\ fetchPc = "start"
    /\ selected = <<>>
    /\ fetchTask = <<>>
    /\ fetchLock = 0
    /\ all_repos = <<>>
    /\ fetchOut = NoFetch
    /\ saveCalls = <<>>

\* The filter on foundry_name, the ValueError for a name no foundry has, and
\* ThreadPoolExecutor(max_workers=max(1, len(foundries))).
FetchSelect ==
    /\ fetchPc = "start"
    /\ LET Named(fc) == fc.name = fetchArgs.foundry_name
           foundries == IF fetchArgs.foundry_name # ""
                        THEN SelectSeq(fetchArgs.foundries, Named)
                        ELSE fetchArgs.foundries
       IN  IF fetchArgs.foundry_name # "" /\ foundries = <<>>
           THEN /\ fetchPc' = "raised"
                /\ fetchOut' = [raised |-> "ValueError", returned |-> None]
                /\ UNCHANGED <<selected, fetchTask>>
           ELSE /\ fetchPc' = IF foundries = <<>> THEN "wait" ELSE "submit"
                /\ selected' = foundries
                /\ fetchTask' = [k \in 1..Len(foundries) |->
                                    [pc |-> "new", repos |-> <<>>, exc |-> "none"]]
                /\ UNCHANGED fetchOut
    /\ UNCHANGED <<syncVars, regVars, configVars, fetchArgs, fetchLock, all_repos, saveCalls>>

\* executor.submit(_fetch_one, fc) for the next foundry.
FetchSubmit ==
    /\ fetchPc = "submit"
    /\ \E k \in FetchTasks :
        /\ fetchTask[k].pc = "new"
        /\ \A j \in 1..(k - 1) : fetchTask[j].pc # "new"
        /\ fetchTask' = [fetchTask EXCEPT ![k].pc = "queued"]
        /\ fetchPc' = IF k = Len(selected) THEN "wait" ELSE "submit"
    /\ UNCHANGED <<syncVars, regVars, configVars, fetchArgs, selected, fetchLock,
                   all_repos, fetchOut, saveCalls>>

\* A pool thread enters _fetch_one and picks the lister; an unknown type
\* returns at once.
FetchStart(k) ==
    /\ fetchTask[k].pc = "queued"
    /\ Cardinality(FetchRunning) < Max(1, Len(selected))
    /\ fetchTask' = [fetchTask EXCEPT ![k].pc =
                        IF list_fn(selected[k].type) = "none" THEN "done" ELSE "list"]
    /\ UNCHANGED <<syncVars, regVars, configVars, fetchArgs, fetchPc, selected,
                   fetchLock, all_repos, fetchOut, saveCalls>>

\* repos = list_fn(fc, cfg.clone_url_format): the lister returns repos or
\* raises, and what it raises is stored in the task's future.
FetchList(k) ==
    /\ fetchTask[k].pc = "list"
    /\ \/ \E repos \in ListerReturns(selected[k]) :
            fetchTask' = [fetchTask EXCEPT ![k] = [pc |-> "lock", repos |-> repos, exc |-> "none"]]
       \/ \E e \in ListerRaises :
            fetchTask' = [fetchTask EXCEPT ![k] = [pc |-> "failed", repos |-> <<>>, exc |-> e]]
    /\ UNCHANGED <<syncVars, regVars, configVars, fetchArgs, fetchPc, selected,
                   fetchLock, all_repos, fetchOut, saveCalls>>

\* with lock: (entering)
FetchAcquire(k) ==
    /\ fetchTask[k].pc = "lock"
    /\ fetchLock = 0
    /\ fetchLock' = k
    /\ fetchTask' = [fetchTask EXCEPT ![k].pc = "extend"]
    /\ UNCHANGED <<syncVars, regVars, configVars, fetchArgs, fetchPc, selected,
                   all_repos, fetchOut, saveCalls>>

\* FetchExtend with "all_repos = repos" in place of all_repos.extend(repos).
FetchExtendAssigns(k) ==
    /\ fetchTask[k].pc = "extend"
    /\ all_repos' = fetchTask[k].repos
    /\ fetchLock' = 0
    /\ fetchTask' = [fetchTask EXCEPT ![k].pc = "done"]
    /\ UNCHANGED <<syncVars, regVars, configVars, fetchArgs, fetchPc, selected,
                   fetchOut, saveCalls>>

\* all_repos.extend(repos), and the with block is left.
FetchExtend(k) ==
    /\ fetchTask[k].pc = "extend"
    /\ all_repos' = all_repos \o fetchTask[k].repos
    /\ fetchLock' = 0
    /\ fetchTask' = [fetchTask EXCEPT ![k].pc = "done"]
    /\ UNCHANGED <<syncVars, regVars, configVars, fetchArgs, fetchPc, selected,
                   fetchOut, saveCalls>>

\* FetchResultRaises without future.result(): a future's exception is never
\* looked at.
FetchResultIgnored ==
    /\ fetchPc = "wait"
    /\ \E k \in FetchTasks : fetchTask[k].pc = "failed"
    /\ \A k \in FetchTasks : fetchTask[k].pc \in {"done", "failed"}
    /\ fetchPc' = "shutdown"
    /\ UNCHANGED <<syncVars, regVars, configVars, fetchArgs, selected, fetchTask,
                   fetchLock, all_repos, fetchOut, saveCalls>>

\* for future in as_completed(futures): future.result() meets a future that
\* holds an exception and re-raises it, leaving the with block.
FetchResultRaises ==
    /\ fetchPc = "wait"
    /\ \E k \in FetchTasks :
        /\ fetchTask[k].pc = "failed"
        /\ fetchOut' = [raised |-> fetchTask[k].exc, returned |-> None]
    /\ fetchPc' = "shutdown"
    /\ UNCHANGED <<syncVars, regVars, configVars, fetchArgs, selected, fetchTask,
                   fetchLock, all_repos, saveCalls>>

\* The as_completed loop has seen every future and none held an exception.
FetchLoopEnds ==
    /\ fetchPc = "wait"
    /\ \A k \in FetchTasks : fetchTask[k].pc = "done"
    /\ fetchPc' = "shutdown"
    /\ UNCHANGED <<syncVars, regVars, configVars, fetchArgs, selected, fetchTask,
                   fetchLock, all_repos, fetchOut, saveCalls>>

\* Leaving the with block: executor.shutdown(wait=True) joins the workers;
\* an exception goes on to the caller.
FetchShutdown ==
    /\ fetchPc = "shutdown"
    /\ \A k \in FetchTasks : fetchTask[k].pc \in {"done", "failed"}
    /\ fetchPc' = IF fetchOut.raised = "none" THEN "sort" ELSE "raised"
    /\ UNCHANGED <<syncVars, regVars, configVars, fetchArgs, selected, fetchTask,
                   fetchLock, all_repos, fetchOut, saveCalls>>

\* all_repos.sort(...), index.save_index(all_repos), return all_repos.
FetchSortSave ==
    /\ fetchPc = "sort"
    /\ all_repos' = sort(all_repos)
    /\ saveCalls' = Append(saveCalls, all_repos')
    /\ index' = all_repos'
    /\ fetchOut' = [raised |-> "none", returned |-> all_repos']
    /\ fetchPc' = "returned"
    /\ UNCHANGED <<syncVars, registry, lastCall, configVars, fetchArgs, selected,
                   fetchTask, fetchLock>>

FetchNext ==
    \/ FetchSelect
    \/ FetchSubmit
    \/ \E k \in FetchTasks : FetchStart(k)
    \/ \E k \in FetchTasks : FetchList(k)
    \/ \E k \in FetchTasks : FetchAcquire(k)
    \/ \E k \in FetchTasks : FetchExtend(k)
    \/ FetchResultRaises
    \/ FetchLoopEnds
    \/ FetchShutdown
    \/ FetchSortSave

FetchSpec == FetchInit /\ [][FetchNext]_vars

\* ------------------------------------------------------------ config.yaml

\* The default config text (its commented-out foundries left out).
DEFAULT_CONFIG ==
    "clone_root: ~/projects    # where repos get cloned\n"
    \o "clone_url_format: ssh     # \"https\" or \"ssh\"\n"
    \o "foundries:\n  - name: github\n    type: github\n    token: \"\"\n"

FileWith(text) == [exists |-> TRUE, text |-> text]

\* What a user may have put into config.yaml with an editor.
UserTexts == {"existing content", "old content"}

\* A FoundryConfig as save_config reads it; url "None" is url=None.
SavedFoundry(name, type, token, url) ==
    [name |-> name, type |-> type, token |-> token, url |-> url]

\* The Config values save_config is tried with.
Configs ==
    [clone_root : {"~/projects", "/r"},
     clone_url_format : {"ssh", "https"},
     foundries : { <<>>,
                   <<SavedFoundry("github", "github", "tok", "None")>>,
                   <<SavedFoundry("my-gitea", "gitea", "tok", "https://gitea.example.com")>> }]

\* yaml.dump of one foundry's dict: keys in sorted order, url left out when
\* it is None.
DumpFoundry(f) ==
    "- name: " \o f.name \o "\n  token: " \o f.token \o "\n  type: " \o f.type \o "\n"
    \o (IF f.url = "None" THEN "" ELSE "  url: " \o f.url \o "\n")

RECURSIVE DumpFoundries(_)
DumpFoundries(fs) ==
    IF fs = <<>> THEN "" ELSE DumpFoundry(Head(fs)) \o DumpFoundries(Tail(fs))

\* yaml.dump(data, default_flow_style=False) of save_config's dict.
DumpConfig(config) ==
    "clone_root: " \o config.clone_root \o "\n"
    \o "clone_url_format: " \o config.clone_url_format \o "\n"
    \o (IF config.foundries = <<>>
        THEN "foundries: []\n"
        ELSE "foundries:\n" \o DumpFoundries(config.foundries))

\* init_config without the exists check: the default text is always written.
init_configAlwaysWrites(file, force) ==
    [raised |-> "none", file |-> FileWith(DEFAULT_CONFIG)]

\* init_config(force=force) on config.yaml as it is: what is raised, and the
\* file afterwards.
init_config(file, force) ==
    IF file.exists /\ ~force
    THEN [raised |-> "ConfigExistsError", file |-> file]
    ELSE [raised |-> "none", file |-> FileWith(DEFAULT_CONFIG)]

\* save_config(config)
save_config(file, config) == [raised |-> "none", file |-> FileWith(DumpConfig(config))]

ConfigInit ==
    /\ SyncIdle
    /\ FetchIdle
    /\ registry = <<>>
    /\ index = <<>>
    /\ lastCall = NoCall
    /\ ConfigIdle

\* One "git-projects config init" call, with or without --force.
InitConfig ==
    \E force \in BOOLEAN :
        LET out == init_config(configFile, force)
        IN  /\ configFile' = out.file
            /\ configCall' = [op |-> "init_config", force |-> force,
                              raised |-> out.raised, before |-> configFile]
            /\ UNCHANGED <<syncVars, regVars, fetchVars>>

\* One save_config call.
SaveConfig ==
    \E config \in Configs :
        LET out == save_config(configFile, config)
        IN  /\ configFile' = out.file
            /\ configCall' = [op |-> "save_config", force |-> FALSE,
                              raised |-> out.raised, before |-> configFile]
            /\ UNCHANGED <<syncVars, regVars, fetchVars>>

\* The user writes config.yaml with an editor.
EditConfig ==
    \E text \in UserTexts :
        /\ configFile' = FileWith(text)
        /\ configCall' = [op |-> "edit", force |-> FALSE, raised |-> "none",
                          before |-> configFile]
        /\ UNCHANGED <<syncVars, regVars, fetchVars>>

\* The user removes config.yaml.
RemoveConfig ==
    /\ configFile.exists
    /\ configFile' = AbsentFile
    /\ configCall' = [op |-> "remove", force |-> FALSE, raised |-> "none",
                      before |-> configFile]
    /\ UNCHANGED <<syncVars, regVars, fetchVars>>

ConfigNext == InitConfig \/ SaveConfig \/ EditConfig \/ RemoveConfig

ConfigSpec == ConfigInit /\ [][ConfigNext]_vars

\* ------------------------------------------------ vocabulary of the claims

Exited == mainPc \in {"returned", "raised"}

DistinctNames == \A i, j \in Tasks : i # j => projects[i].name # projects[j].name

\* Task i has made its append to the shared result.
Appended(i) == pc[i] \in {"callback", "release", "done"}

\* Task i holds the lock: it is appending or inside on_project.
InLock(i) == pc[i] \in {"append", "callback", "release"}

Occ(s, x) == Cardinality({k \in DOMAIN s : s[k] = x})

OccName(s, n) == Cardinality({k \in DOMAIN s : s[k][1] = n})

\* How often name n occurs across the four collections.
Outcomes(n) ==
    Occ(result.cloned, n) + Occ(result.synced, n) + Occ(result.skipped, n)
    + OccName(result.errored, n)

RecordedNames ==
    {result.cloned[k] : k \in DOMAIN result.cloned}
    \cup {result.synced[k] : k \in DOMAIN result.synced}
    \cup {result.skipped[k] : k \in DOMAIN result.skipped}
    \cup {result.errored[k][1] : k \in DOMAIN result.errored}

Called(log, op) == \E k \in DOMAIN log : log[k].op = op

Gave(log, op, raised) == \E k \in DOMAIN log : log[k].op = op /\ log[k].raised = raised

\* The text of the GitError a call of this log raised.
GitErrorText(log) == log[CHOOSE k \in DOMAIN log : log[k].raised = "GitError"].msg

RaisedGitError(log) == \E k \in DOMAIN log : log[k].raised = "GitError"

\* The outcome that task i's own calls decide (section 4.1's procedure), read
\* from nothing but what those calls gave.
OwnOutcome(log) ==
    IF Gave(log, "clone", "none") THEN "cloned"
    ELSE IF RaisedGitError(log) THEN "errored"
    ELSE IF \E k \in DOMAIN log : log[k].op = "is_dirty" /\ log[k].value THEN "skipped"
    ELSE IF Gave(log, "push", "none") THEN "synced"
    ELSE "none"

\* The appended tasks of name n whose own calls decide outcome o.
Deciding(n, o) ==
    {i \in Tasks : Appended(i) /\ projects[i].name = n /\ OwnOutcome(oplog[i]) = o}

\* ------------------------------------------------------------------- C1

\* C1: when sync_projects returns a result for an input list of pairwise
\* distinct names, every input name occurs exactly once across cloned,
\* synced, skipped and errored, and no other name occurs.
C1_ExactlyOneOutcome ==
    (mainPc = "returned" /\ DistinctNames) =>
        /\ \A i \in Tasks : Outcomes(projects[i].name) = 1
        /\ RecordedNames \subseteq {projects[i].name : i \in Tasks}

\* Two distinct projects ran on a pool of two and ended in different
\* collections.
C1_Witness ==
    /\ mainPc = "returned"
    /\ DistinctNames
    /\ Len(projects) >= 2
    /\ max_workers >= 2
    /\ result.errored # <<>>
    /\ result.skipped # <<>>

\* ------------------------------------------------------------------- C2

\* C2: a GitError raised by clone, pull or push stays inside its own task: it
\* is never stored in a future nor raised by sync_projects, the task goes on
\* to record (name, text) in errored, every collection holds exactly the
\* projects whose own calls decide that outcome, and when the call ends every
\* task has ended.
C2_FailureIsolation ==
    /\ raisedExc # "GitError"
    /\ \A i \in Tasks :
        /\ futExc[i] # "GitError"
        /\ RaisedGitError(oplog[i]) =>
            /\ pc[i] # "failed"
            /\ Appended(i) =>
                \E k \in DOMAIN result.errored :
                    result.errored[k] = <<projects[i].name, GitErrorText(oplog[i])>>
        /\ Exited => pc[i] \in {"done", "failed"}
    /\ \A n \in Names :
        /\ Occ(result.cloned, n) = Cardinality(Deciding(n, "cloned"))
        /\ Occ(result.synced, n) = Cardinality(Deciding(n, "synced"))
        /\ Occ(result.skipped, n) = Cardinality(Deciding(n, "skipped"))
        /\ OccName(result.errored, n) = Cardinality(Deciding(n, "errored"))

\* Every project of a list of two raised a GitError and the call returned
\* with both in errored.
C2_Witness ==
    /\ mainPc = "returned"
    /\ Len(projects) >= 2
    /\ \A i \in Tasks : RaisedGitError(oplog[i])
    /\ Len(result.errored) = Len(projects)

\* ------------------------------------------------------------------- C3

\* The clone attempt of task i met a filesystem error (parent.mkdir raised).
FilesystemError(i) == Gave(oplog[i], "clone", "OSError")

\* C3: a filesystem error during a project's clone attempt becomes an Errored
\* outcome of that project: its task does not fail, sync_projects raises
\* nothing and returns the result with that project in errored.
C3_FilesystemErrorIsErrored ==
    \A i \in Tasks :
        FilesystemError(i) =>
            /\ pc[i] # "failed"
            /\ raisedExc = "none"
            /\ Exited =>
                /\ mainPc = "returned"
                /\ OccName(result.errored, projects[i].name) >= 1

\* ------------------------------------------------------------------- C4

\* The path of task i existed and is_dirty returned true for it.
DirtyTree(i) ==
    /\ \E k \in DOMAIN oplog[i] : oplog[i][k].op = "exists" /\ oplog[i][k].value
    /\ \E k \in DOMAIN oplog[i] : oplog[i][k].op = "is_dirty" /\ oplog[i][k].value

\* C4: a project whose path exists and whose tree is dirty is never cloned,
\* pulled or pushed; it is recorded in skipped, reported as "skipped (dirty)",
\* and its task ends normally.
C4_DirtySkipNeverMutates ==
    \A i \in Tasks :
        DirtyTree(i) =>
            /\ ~Called(oplog[i], "clone")
            /\ ~Called(oplog[i], "pull")
            /\ ~Called(oplog[i], "push")
            /\ pc[i] \in {"lock", "append", "callback", "release", "done"}
            /\ branch[i] = "skipped"
            /\ Appended(i) =>
                /\ Occ(result.skipped, projects[i].name) >= 1
                /\ DistinctNames => Outcomes(projects[i].name) = 1
            /\ (on_project /\ pc[i] \in {"release", "done"}) =>
                Occ(calls, <<projects[i].name, "skipped (dirty)">>) >= 1

\* A dirty project was skipped and reported while another project was synced,
\* and the call returned.
C4_Witness ==
    /\ mainPc = "returned"
    /\ on_project
    /\ \E i \in Tasks : DirtyTree(i) /\ pc[i] = "done"
    /\ result.synced # <<>>

\* ------------------------------------------------------------------- C5

\* C5: push_repo is called for a project only right after its pull_repo
\* returned without raising; when pull raises, push is never called and the
\* project is recorded in errored with pull's text.
C5_PushGatedOnPull ==
    \A i \in Tasks :
        /\ \A k \in DOMAIN oplog[i] :
            oplog[i][k].op = "push" =>
                /\ k > 1
                /\ oplog[i][k - 1].op = "pull"
                /\ oplog[i][k - 1].raised = "none"
        /\ pc[i] = "push" => Gave(oplog[i], "pull", "none")
        /\ Gave(oplog[i], "pull", "GitError") =>
            /\ ~Called(oplog[i], "push")
            /\ pc[i] \in {"lock", "append", "callback", "release", "done"}
            /\ StatusLabel(branch[i], exc[i]) = "error: " \o GitErrorText(oplog[i])
            /\ Appended(i) =>
                /\ Occ(result.errored, <<projects[i].name, GitErrorText(oplog[i])>>) >= 1
                /\ Occ(result.synced, projects[i].name)
                    = Cardinality(Deciding(projects[i].name, "synced"))

\* One project's pull failed and it ended in errored; another was pulled and
\* then pushed.
C5_Witness ==
    /\ Exited
    /\ \E i \in Tasks : Gave(oplog[i], "pull", "GitError") /\ pc[i] = "done"
    /\ \E i \in Tasks : Gave(oplog[i], "push", "none") /\ pc[i] = "done"

\* ------------------------------------------------------------------- C6

\* The label on_project gets for an errored entry <<name, message>>.
ErrorCall(e) == <<e[1], "error: " \o e[2]>>

\* C6: with a callback supplied, by the time the call ends on_project has
\* been invoked exactly once per input project, each time with the label of
\* the outcome recorded for that project, and with no other label.
C6_CallbackOncePerProject ==
    (on_project /\ Exited) =>
        /\ \A n \in Names :
            /\ OccName(calls, n) = Cardinality({i \in Tasks : projects[i].name = n})
            /\ Occ(calls, <<n, "cloned">>) = Occ(result.cloned, n)
            /\ Occ(calls, <<n, "synced">>) = Occ(result.synced, n)
            /\ Occ(calls, <<n, "skipped (dirty)">>) = Occ(result.skipped, n)
        /\ \A k \in DOMAIN result.errored :
            Occ(calls, ErrorCall(result.errored[k]))
                = Occ(result.errored, result.errored[k])
        /\ \A k \in DOMAIN calls :
            \/ calls[k][2] \in {"cloned", "synced", "skipped (dirty)"}
            \/ \E j \in DOMAIN result.errored : calls[k] = ErrorCall(result.errored[j])

\* ------------------------------------------------------------------- C7

\* C7: at most one task at a time is inside a "with lock:" block (appending
\* or inside on_project), that task holds the lock, no append is lost and
\* no callback invocation is lost.
C7_MutualExclusion ==
    /\ Cardinality({i \in Tasks : InLock(i)}) <= 1
    /\ \A i \in Tasks : InLock(i) => lock = i
    /\ Len(result.cloned) + Len(result.synced) + Len(result.skipped) + Len(result.errored)
        = Cardinality({i \in Tasks : Appended(i)})
    /\ on_project => Len(calls) = Cardinality({i \in Tasks : pc[i] \in {"release", "done"}})

\* One task is inside on_project while another waits for the lock.
C7_Witness ==
    \E i, j \in Tasks : i # j /\ pc[i] = "callback" /\ pc[j] = "lock"

\* ------------------------------------------------------------------- C8

\* C8: never more than max(1, max_workers) projects are being processed at
\* once; with max_workers = 1 at most one git operation is in flight.
C8_ConcurrencyCeiling ==
    /\ Cardinality(Running) <= (IF max_workers > 1 THEN max_workers ELSE 1)
    /\ max_workers = 1 =>
        Cardinality({i \in Tasks : pc[i] \in {"clone", "is_dirty", "pull", "push"}}) <= 1

\* The pool is full: its one worker is busy and a project waits in the queue.
C8_Witness ==
    /\ max_workers = 1
    /\ Cardinality(Running) = 1
    /\ queue # <<>>

\* ------------------------------------------------------------------- C9

AllEnded == \A i \in Tasks : pc[i] \in {"done", "failed"}

\* C9: the call comes to an end, and it ends by returning unless a call made
\* for some project raised something other than a GitError; when it ends no
\* task is running or queued, and when it returns every input project has
\* been processed to an outcome.
C9_BlocksUntilAllTerminal ==
    /\ <>Exited
    /\ [](mainPc = "raised" => \E i \in Tasks : FilesystemError(i))
    /\ [](Exited => (AllEnded /\ Running = {} /\ queue = <<>> /\ lock = 0))
    /\ [](mainPc = "returned" => \A i \in Tasks : pc[i] = "done")

\* The call returned after two projects ran on a pool of two.
C9_Witness ==
    /\ mainPc = "returned"
    /\ Len(projects) >= 2
    /\ max_workers >= 2
    /\ AllEnded

\* ------------------------------------------------------------------ C10

\* C10: with max_workers below 1 the pool is built with exactly one worker,
\* as for max_workers = 1: the constructor does not raise, at most one
\* project is processed at a time, and the call ends with every task ended.
C10_BelowOneIsOneWorker ==
    /\ [](max_workers < 1 =>
            /\ PoolSize(max_workers) = 1
            /\ PoolSize(max_workers) = PoolSize(1)
            /\ raisedExc # "ValueError"
            /\ Cardinality(Running) <= 1)
    /\ (max_workers < 1) ~> (Exited /\ AllEnded)
    /\ [](max_workers < 1 /\ mainPc = "returned" => \A i \in Tasks : pc[i] = "done")

\* With max_workers below 1 a list of two projects was processed and the
\* call returned.
C10_Witness ==
    /\ max_workers < 1
    /\ mainPc = "returned"
    /\ Len(projects) >= 2
    /\ Len(result.cloned) + Len(result.synced) + Len(result.skipped) + Len(result.errored) = 2

\* ------------------------------------------------------------------ C11

\* What the answers given to a project's own calls decide: the category and,
\* for errored, the message. It reads no other task, no max_workers and no
\* position of any thread.
Decision(log) ==
    <<OwnOutcome(log), IF OwnOutcome(log) = "errored" THEN GitErrorText(log) ELSE "">>

\* The category a "with lock:" block records in.
Category(b) == IF b \in {"clone_error", "sync_error"} THEN "errored" ELSE b

\* The collection of a category.
Collection(c) ==
    CASE c = "cloned" -> result.cloned
      [] c = "synced" -> result.synced
      [] c = "skipped" -> result.skipped
      [] c = "errored" -> result.errored
      [] OTHER -> <<>>

\* C11: the category and message recorded for a project are the ones its own
\* filesystem and git answers decide, in every reachable state, hence under
\* every interleaving and every max_workers value: the block a task heads for
\* and the text it carries equal Decision, a task fails exactly on a
\* filesystem error, and each collection holds, entry for entry and with
\* nothing else, the decided outcomes of the appended tasks. The order of the
\* entries is left open.
C11_OutcomeIsDecidedByOwnAnswers ==
    LET app == {i \in Tasks : Appended(i)}
        \* what task i carries into its "with lock:" block
        carried(i) == <<Category(branch[i]), exc[i]>>
        entry(i) == IF Category(branch[i]) = "errored"
                    THEN <<projects[i].name, exc[i]>>
                    ELSE projects[i].name
    IN  /\ \A i \in Tasks :
            /\ pc[i] \in {"lock", "append", "callback", "release", "done"} =>
                carried(i) = Decision(oplog[i])
            /\ pc[i] = "failed" <=> FilesystemError(i)
        /\ \A i \in app :
            Occ(Collection(Category(branch[i])), entry(i))
                = Cardinality({j \in app : projects[j].name = projects[i].name
                                           /\ carried(j) = carried(i)})
        /\ \A c \in {"cloned", "synced", "skipped", "errored"} :
            Len(Collection(c)) = Cardinality({i \in app : Category(branch[i]) = c})

\* Two projects ran on a pool of two; one was cloned, the other's pull failed,
\* and the call returned.
C11_Witness ==
    /\ mainPc = "returned"
    /\ max_workers >= 2
    /\ Len(projects) >= 2
    /\ result.cloned # <<>>
    /\ \E k \in DOMAIN result.errored : result.errored[k][2] = "conflict"

\* ------------------------------------------------------------------ C12

\* Path(expanded).exists() answered false for task i.
PathAbsent(i) == oplog[i] # <<>> /\ ~oplog[i][1].value

\* C12: for a project whose path does not exist the only call made is
\* clone_repo(clone_url, path), once; is_dirty, pull_repo and push_repo are
\* never called for it; when the clone succeeds the project is recorded in
\* cloned and reported as "cloned".
C12_AbsentPathIsCloned ==
    \A i \in Tasks :
        PathAbsent(i) =>
            /\ pc[i] \notin {"is_dirty", "pull", "push"}
            /\ ~Called(oplog[i], "is_dirty")
            /\ ~Called(oplog[i], "pull")
            /\ ~Called(oplog[i], "push")
            /\ Len(oplog[i]) <= 2
            /\ Len(oplog[i]) = 1 => pc[i] = "clone"
            /\ Len(oplog[i]) = 2 =>
                /\ oplog[i][2].op = "clone"
                /\ oplog[i][2].args = <<projects[i].clone_url, projects[i].path>>
            /\ Gave(oplog[i], "clone", "none") =>
                /\ StatusLabel(branch[i], exc[i]) = "cloned"
                /\ Appended(i) =>
                    Occ(result.cloned, projects[i].name)
                        = Cardinality(Deciding(projects[i].name, "cloned"))
                /\ (on_project /\ pc[i] \in {"release", "done"}) =>
                    Occ(calls, <<projects[i].name, "cloned">>) >= 1

\* Both projects of a list of two were absent and cloned (the spec's
\* "all clone" scenario), and reported.
C12_Witness ==
    /\ mainPc = "returned"
    /\ on_project
    /\ Len(projects) >= 2
    /\ DistinctNames
    /\ \A i \in Tasks : PathAbsent(i)
    /\ Len(result.cloned) = Len(projects)

\* ------------------------------------------------------------------ C13

\* C13: for a project whose path does not exist and whose clone raises a
\* GitError, (name, stderr text) is recorded in errored, the label is
\* "error: " followed by that text, the project is not recorded in cloned,
\* and no further call is made for it.
C13_CloneErrorIsErrored ==
    \A i \in Tasks :
        (PathAbsent(i) /\ Gave(oplog[i], "clone", "GitError")) =>
            /\ Len(oplog[i]) = 2
            /\ oplog[i][2].msg \in StderrTexts("clone")
            /\ pc[i] \in {"lock", "append", "callback", "release", "done"}
            /\ exc[i] = oplog[i][2].msg
            /\ StatusLabel(branch[i], exc[i]) = "error: " \o oplog[i][2].msg
            /\ Appended(i) =>
                /\ Occ(result.errored, <<projects[i].name, oplog[i][2].msg>>) >= 1
                /\ Occ(result.cloned, projects[i].name)
                    = Cardinality(Deciding(projects[i].name, "cloned"))
                /\ DistinctNames => Occ(result.cloned, projects[i].name) = 0
            /\ (on_project /\ pc[i] \in {"release", "done"}) =>
                Occ(calls, <<projects[i].name, "error: " \o oplog[i][2].msg>>) >= 1

\* The spec's "mixed" scenario: one project's clone failed with "auth failed",
\* another was synced, both were reported.
C13_Witness ==
    /\ mainPc = "returned"
    /\ on_project
    /\ \E k \in DOMAIN result.errored : result.errored[k][2] = "auth failed"
    /\ result.synced # <<>>

\* ------------------------------------------------------------------ C14

\* The path of task i existed and is_dirty returned false for it.
CleanTree(i) ==
    /\ Len(oplog[i]) >= 2
    /\ oplog[i][1].value
    /\ oplog[i][2].op = "is_dirty" /\ ~oplog[i][2].value

\* C14: for a project whose path exists and is clean the next call is
\* pull_repo(path) and, after it, push_repo(path); clone_repo is never called;
\* when both succeed the project is recorded in synced and reported as
\* "synced".
C14_CleanTreeIsPulledThenPushed ==
    \A i \in Tasks :
        CleanTree(i) =>
            /\ ~Called(oplog[i], "clone")
            /\ pc[i] # "clone"
            /\ Len(oplog[i]) = 2 => pc[i] = "pull"
            /\ Len(oplog[i]) >= 3 =>
                /\ oplog[i][3].op = "pull"
                /\ oplog[i][3].args = <<projects[i].path>>
            /\ (Len(oplog[i]) = 3 /\ oplog[i][3].raised = "none") => pc[i] = "push"
            /\ Len(oplog[i]) >= 4 =>
                /\ oplog[i][4].op = "push"
                /\ oplog[i][4].args = <<projects[i].path>>
            /\ Len(oplog[i]) <= 4
            /\ (Gave(oplog[i], "pull", "none") /\ Gave(oplog[i], "push", "none")) =>
                /\ StatusLabel(branch[i], exc[i]) = "synced"
                /\ Appended(i) => Occ(result.synced, projects[i].name) >= 1
                /\ (Appended(i) /\ DistinctNames) => Outcomes(projects[i].name) = 1
                /\ (on_project /\ pc[i] \in {"release", "done"}) =>
                    Occ(calls, <<projects[i].name, "synced">>) >= 1

\* Two projects with different paths were both pulled, pushed and synced.
C14_Witness ==
    /\ mainPc = "returned"
    /\ on_project
    /\ DistinctNames
    /\ Len(projects) >= 2
    /\ Len(result.synced) = Len(projects)

\* ------------------------------------------------------------------ C15

\* C15: for a project whose path exists and is clean, whose pull succeeds and
\* whose push raises a GitError, (name, push's stderr text) is recorded in
\* errored, the label is "error: " followed by that text, and the project is
\* not recorded in synced.
C15_PushErrorIsErrored ==
    \A i \in Tasks :
        (CleanTree(i) /\ Gave(oplog[i], "pull", "none") /\ Gave(oplog[i], "push", "GitError")) =>
            /\ oplog[i][4].op = "push"
            /\ oplog[i][4].msg \in StderrTexts("push")
            /\ branch[i] = "sync_error"
            /\ exc[i] = oplog[i][4].msg
            /\ StatusLabel(branch[i], exc[i]) = "error: " \o oplog[i][4].msg
            /\ Occ(result.synced, projects[i].name)
                = Cardinality(Deciding(projects[i].name, "synced"))
            /\ DistinctNames => Occ(result.synced, projects[i].name) = 0
            /\ Appended(i) =>
                Occ(result.errored, <<projects[i].name, oplog[i][4].msg>>) >= 1
            /\ (on_project /\ pc[i] \in {"release", "done"}) =>
                Occ(calls, <<projects[i].name, "error: " \o oplog[i][4].msg>>) >= 1

\* A project was pulled, its push was rejected, it was recorded and reported,
\* and the call returned.
C15_Witness ==
    /\ mainPc = "returned"
    /\ on_project
    /\ \E i \in Tasks :
        /\ Gave(oplog[i], "pull", "none")
        /\ Gave(oplog[i], "push", "GitError")
    /\ \E k \in DOMAIN result.errored : result.errored[k][2] = "rejected"

\* ------------------------------------------------------------------ C16

\* The empty SyncResult.
EmptyResult == [cloned |-> <<>>, synced |-> <<>>, skipped |-> <<>>, errored |-> <<>>]

\* C16: on the empty project list, whatever max_workers is, the four
\* collections stay empty, the callback is never invoked, no task and no git
\* call exists, no exception is raised, and the call is either returned or
\* still able to step.
C16_EmptyListIsEmptyResult ==
    Len(projects) = 0 =>
        /\ result = EmptyResult
        /\ calls = <<>>
        /\ DOMAIN oplog = {}
        /\ Running = {}
        /\ queue = <<>>
        /\ mainPc # "raised"
        /\ raisedExc = "none"
        /\ mainPc = "returned" \/ ENABLED Next

\* The empty list was synced with a callback and a max_workers below 1, and
\* the call returned.
C16_Witness ==
    /\ Len(projects) = 0
    /\ max_workers < 1
    /\ on_project
    /\ mainPc = "returned"

\* ------------------------------------------------------------------ C17

\* C17: when sync_projects returns, the four collections hold together as
\* many entries as the input list has projects, also when the list is empty
\* and when projects share a name and a path.
C17_CountsAddUp ==
    mainPc = "returned" =>
        Len(result.cloned) + Len(result.synced) + Len(result.skipped)
            + Len(result.errored) = Len(projects)

\* A list with the same project twice was synced and both entries landed in
\* one collection.
C17_Witness ==
    /\ mainPc = "returned"
    /\ Len(projects) >= 2
    /\ ~DistinctNames
    /\ \/ Len(result.cloned) = Len(projects)
       \/ Len(result.errored) = Len(projects)

\* ------------------------------------------------------------------ C18

\* How many times op was called for the task whose log is log.
TimesCalled(log, op) == Cardinality({k \in DOMAIN log : log[k].op = op})

\* C18: each of clone_repo, is_dirty, pull_repo and push_repo is called at
\* most once for a task, whatever the call gave.
C18_NoRetry ==
    \A i \in Tasks :
        \A op \in {"clone", "is_dirty", "pull", "push"} :
            TimesCalled(oplog[i], op) <= 1

\* A pull failed, the task ended, and the call returned.
C18_Witness ==
    /\ mainPc = "returned"
    /\ \E i \in Tasks :
        /\ Gave(oplog[i], "pull", "GitError")
        /\ pc[i] = "done"
        /\ TimesCalled(oplog[i], "pull") = 1

\* ------------------------------------------------------------------ C19

\* C19 (as the spec states it): every git call whose subprocess exits
\* non-zero raises a GitError carrying the stderr text, the dirty check
\* included, so a task whose status command exits non-zero is recorded as
\* errored and is neither pulled nor skipped.
C19_NonZeroExitIsFailure ==
    \A i \in Tasks :
        \A k \in DOMAIN oplog[i] :
            (oplog[i][k].op \in {"clone", "is_dirty", "pull", "push"}
             /\ oplog[i][k].raised # "OSError"
             /\ oplog[i][k].rc # 0) =>
                /\ oplog[i][k].raised = "GitError"
                /\ k = Len(oplog[i])
                /\ OwnOutcome(oplog[i]) = "errored"

\* ------------------------------------------------------------------ C20

\* C20 (as the spec states it): no two tracked projects have the same name.
C20_NamesAreUnique ==
    \A j, k \in DOMAIN registry : j # k => registry[j].name # registry[k].name

\* ------------------------------------------------------------------ C21

\* The clone URL a track_project call works with: the argument when it is a
\* URL, else what the index gave for the name (None when the lookup raised).
ClonedUrlOf(call) ==
    IF _is_url(call.arg) THEN call.arg ELSE ResolveName(index, call.arg).clone_url

\* C21: no two tracked projects share a clone_url, and a track_project call
\* for a clone URL that was already tracked raised ValueError("Already
\* tracking"), did not call save_projects and left projects.json as it was.
C21_CloneUrlsAreUnique ==
    /\ \A j, k \in DOMAIN registry :
        j # k => registry[j].clone_url # registry[k].clone_url
    /\ (lastCall.op = "track"
        /\ \E k \in DOMAIN lastCall.before :
              lastCall.before[k].clone_url = ClonedUrlOf(lastCall)) =>
            /\ lastCall.raised = "Already tracking"
            /\ ~lastCall.saved
            /\ lastCall.returned = None
            /\ registry = lastCall.before

\* A URL tracked before was tracked again, this time with --path, among
\* other tracked projects.
C21_Witness ==
    /\ lastCall.op = "track"
    /\ lastCall.raised = "Already tracking"
    /\ lastCall.path # None
    /\ _is_url(lastCall.arg)
    /\ Len(registry) >= 2

\* ------------------------------------------------------------------ C22

\* C22: an untrack_project call for a name no tracked project had raised
\* ValueError, did not call save_projects and left projects.json as it was;
\* any other call saved the previous list without the projects of that name:
\* none of that name is left, every other project is kept, and the kept ones
\* are in their previous order.
C22_UntrackRemovesExactlyThatName ==
    lastCall.op = "untrack" =>
        IF \A k \in DOMAIN lastCall.before : lastCall.before[k].name # lastCall.arg
        THEN /\ lastCall.raised = "No project named"
             /\ ~lastCall.saved
             /\ registry = lastCall.before
        ELSE /\ lastCall.raised = "none"
             /\ lastCall.saved
             /\ \A k \in DOMAIN registry : registry[k].name # lastCall.arg
             /\ Len(registry) = Cardinality({k \in DOMAIN lastCall.before :
                                                lastCall.before[k].name # lastCall.arg})
             /\ \E f \in [DOMAIN registry -> DOMAIN lastCall.before] :
                    /\ \A k \in DOMAIN registry : lastCall.before[f[k]] = registry[k]
                    /\ \A j, k \in DOMAIN registry : j < k => f[j] < f[k]

\* Two projects of one name were removed in one call and a project of
\* another name, tracked between them, was kept.
C22_Witness ==
    /\ lastCall.op = "untrack"
    /\ lastCall.raised = "none"
    /\ Len(lastCall.before) = 3
    /\ Len(registry) = 1
    /\ registry[1] = lastCall.before[2]

\* ------------------------------------------------------------------ C23

\* The places of the index whose name is the argument, and those whose
\* lower-cased name contains the lower-cased argument.
ExactMatches(name) == {k \in DOMAIN index : index[k].name = name}

SubstringMatches(name) ==
    {k \in DOMAIN index : contains(lower(index[k].name), lower(name))}

\* The call went on with this clone URL: it tracked it, or found it tracked.
WentOnWith(call, url) ==
    \/ call.raised = "none" /\ call.returned.clone_url = url
    \/ /\ call.raised = "Already tracking"
       /\ \E k \in DOMAIN call.before : call.before[k].clone_url = url

\* C23: a track_project call with a non-URL argument used the single exact
\* name match of the index when there was one, whatever other names contain
\* the argument; without an exact match it used the single case-insensitive
\* substring match; it raised ValueError on an empty index, on no match and
\* on several exact or several substring matches; and whenever it raised,
\* save_projects was not called and projects.json stayed as it was.
C23_NameResolution ==
    (lastCall.op = "track" /\ ~_is_url(lastCall.arg)) =>
        LET exact == ExactMatches(lastCall.arg)
            partial == SubstringMatches(lastCall.arg)
        IN  /\ index = <<>> => lastCall.raised = "Index is empty"
            /\ Cardinality(exact) = 1 =>
                \A k \in exact : WentOnWith(lastCall, index[k].clone_url)
            /\ Cardinality(exact) > 1 => lastCall.raised = "Ambiguous"
            /\ (exact = {} /\ Cardinality(partial) = 1) =>
                \A k \in partial : WentOnWith(lastCall, index[k].clone_url)
            /\ (exact = {} /\ Cardinality(partial) > 1) => lastCall.raised = "Ambiguous"
            /\ (index # <<>> /\ partial = {}) => lastCall.raised = "No repo named"
            /\ lastCall.raised # "none" =>
                /\ ~lastCall.saved
                /\ registry = lastCall.before
                /\ lastCall.returned = None

\* "a" was tracked by name from an index that also holds "ab": the exact
\* match was used.
C23_Witness ==
    /\ lastCall.op = "track"
    /\ lastCall.arg = <<"a">>
    /\ lastCall.raised = "none"
    /\ Len(index) = 2
    /\ SubstringMatches(lastCall.arg) = {1, 2}
    /\ lastCall.returned.clone_url = SshUA

\* ------------------------------------------------------------------ C27

\* C27 (as the spec states it): the projects the sync command hands to
\* sync_projects, one worker each, have pairwise different paths.
C27_ResolvedPathsAreDistinct ==
    \A j, k \in DOMAIN registry :
        j # k => resolved(registry)[j].path # resolved(registry)[k].path

\* ------------------------------------------------------------------ C24

\* foundry_name is given and no configured foundry has it.
UnknownFoundry ==
    /\ fetchArgs.foundry_name # ""
    /\ \A k \in DOMAIN fetchArgs.foundries :
          fetchArgs.foundries[k].name # fetchArgs.foundry_name

\* The _fetch_one tasks whose lister raised.
FailedFetches == {k \in FetchTasks : fetchTask[k].exc # "none"}

FetchEnded == fetchPc \in {"returned", "raised"}

\* C24: when foundry_name names no configured foundry, or some selected
\* foundry's lister raised, fetch_repos does not return: it goes on until it
\* raises, what it raises is the ValueError for the name or an exception one
\* of the listers raised, save_index is never called, and index.json changes
\* only in a save_index call, so it stays as it was; whatever the order in
\* which the fetches complete.
C24_FetchIsAllOrNothing ==
    /\ [](UnknownFoundry =>
            /\ fetchTask = <<>>
            /\ saveCalls = <<>>
            /\ fetchPc \in {"start", "raised"}
            /\ fetchPc = "raised" => fetchOut.raised = "ValueError")
    /\ [](FailedFetches # {} =>
            /\ saveCalls = <<>>
            /\ fetchPc # "returned"
            /\ fetchPc \notin {"sort"}
            /\ fetchPc = "raised" \/ ENABLED FetchNext
            /\ fetchPc = "raised" =>
                /\ \E k \in FailedFetches : fetchOut.raised = fetchTask[k].exc
                /\ \A k \in FetchTasks : fetchTask[k].pc \in {"done", "failed"})
    /\ [](fetchPc = "raised" => saveCalls = <<>> /\ fetchOut.returned = None)
    /\ [][saveCalls' = saveCalls => index' = index]_vars

\* Two foundries were fetched; one lister raised, the other's repos were
\* added to all_repos, fetch_repos raised, and a non-empty index.json is
\* still what it was.
C24_Witness ==
    /\ fetchPc = "raised"
    /\ Len(selected) = 2
    /\ Cardinality(FailedFetches) = 1
    /\ all_repos # <<>>
    /\ index # <<>>
    /\ index \in IndexChoices

\* ------------------------------------------------------------------ C25

\* The repos the listers returned, foundry after foundry.
RECURSIVE ListedUpTo(_)
ListedUpTo(k) == IF k = 0 THEN <<>> ELSE ListedUpTo(k - 1) \o fetchTask[k].repos

Listed == ListedUpTo(Len(selected))

\* C25: when every selected foundry's lister succeeded, fetch_repos does not
\* raise, and what it returns holds every repo the listers returned as often
\* as they returned it and nothing else, in ascending order of pushed_at;
\* save_index was called exactly once, with that list, which is what
\* index.json now holds.
C25_FetchReturnsSortedUnion ==
    /\ (~UnknownFoundry /\ FailedFetches = {}) =>
        /\ fetchPc # "raised"
        /\ fetchPc = "returned" \/ ENABLED FetchNext
    /\ fetchPc = "returned" =>
        /\ FailedFetches = {}
        /\ Len(fetchOut.returned) = Len(Listed)
        /\ \A k \in DOMAIN Listed :
            Occ(fetchOut.returned, Listed[k]) = Occ(Listed, Listed[k])
        /\ \A j, k \in DOMAIN fetchOut.returned :
            j < k => fetchOut.returned[j].pushed_at <= fetchOut.returned[k].pushed_at
        /\ saveCalls = <<fetchOut.returned>>
        /\ index = fetchOut.returned
    /\ fetchPc # "returned" => saveCalls = <<>>

\* Two foundries of different types each returned a newer and an older repo,
\* the second foundry's fetch completed first, and fetch_repos returned.
C25_Witness ==
    /\ fetchPc = "returned"
    /\ Len(selected) = 2
    /\ selected[1] # selected[2]
    /\ Len(fetchOut.returned) = 4
    /\ fetchOut.returned[1].clone_url = selected[2].name \o ":proj-b"

\* ------------------------------------------------------------------ C26

\* C26: an init_config call on an existing config.yaml without force raised
\* ConfigExistsError and left the file's content as it was; a call with
\* force, or on an absent file, raised nothing and left the file holding
\* DEFAULT_CONFIG.
C26_InitNeverSilentlyOverwrites ==
    configCall.op = "init_config" =>
        IF configCall.before.exists /\ ~configCall.force
        THEN /\ configCall.raised = "ConfigExistsError"
             /\ configFile = configCall.before
        ELSE /\ configCall.raised = "none"
             /\ configFile.exists
             /\ configFile.text = DEFAULT_CONFIG

\* init without --force met a config.yaml that save_config had written, and
\* refused.
C26_Witness ==
    /\ configCall.op = "init_config"
    /\ ~configCall.force
    /\ configCall.raised = "ConfigExistsError"
    /\ configFile.exists
    /\ configFile.text \notin UserTexts \cup {DEFAULT_CONFIG}

\* ------------------------------------------------------------------ C29

\* How often on_project was invoked with name n.
Invoked(n) == OccName(calls, n)

\* C29: whatever the callback does, a project has at most one recorded
\* outcome and at most one invocation of on_project: a name is recorded, and
\* reported, no more often than it occurs in the input list.
C29_OneOutcomeWhateverTheCallbackDoes ==
    \A i \in Tasks :
        /\ Outcomes(projects[i].name)
            <= Cardinality({j \in Tasks : projects[j].name = projects[i].name})
        /\ Invoked(projects[i].name)
            <= Cardinality({j \in Tasks : projects[j].name = projects[i].name})

\* ------------------------------------------------------------------ C28

\* How many outcomes are recorded.
Recorded ==
    Len(result.cloned) + Len(result.synced) + Len(result.skipped) + Len(result.errored)

\* C28: with a callback supplied, while on_project(name, label) runs for a
\* project that project is the last entry of its collection, the task holds
\* the lock, and no other task is appending or inside on_project (another
\* must take the lock first); so the callbacks completed are at most the
\* outcomes recorded and at least one fewer.
C28_RecordAndNotifyAreAtomic ==
    on_project =>
        /\ \A i \in Tasks :
            pc[i] = "callback" =>
                /\ lock = i
                /\ \A j \in Tasks : j # i => ~InLock(j)
                /\ Collection(Category(branch[i])) # <<>>
                /\ Collection(Category(branch[i]))[Len(Collection(Category(branch[i])))]
                    = (IF Category(branch[i]) = "errored"
                       THEN <<projects[i].name, exc[i]>>
                       ELSE projects[i].name)
                /\ Recorded = Len(calls) + 1
        /\ (\A i \in Tasks : pc[i] # "callback") => Recorded = Len(calls)
        /\ Len(calls) <= Recorded
        /\ Recorded - 1 <= Len(calls)

\* One project's callback has completed, a second project is inside
\* on_project, and a third task is being held off at the lock or, with two
\* projects, the first is already done.
C28_Witness ==
    /\ on_project
    /\ Len(calls) = 1
    /\ Recorded = 2
    /\ \E i \in Tasks : pc[i] = "callback" /\ branch[i] = "sync_error"

\* ------------------------------------------------------------------ C30

\* C30: sync_projects has exited, normally or by exception, only with every
\* project submitted and every task ended: nothing is queued, no task is at a
\* git call or in a with block. The step by which an exception reaches the
\* caller is taken with all tasks ended; the exception is the one a failed
\* task's future holds, it is no GitError, and every other task has run to
\* its recorded outcome.
C30_RaisesAfterAllTerminal ==
    /\ [](Exited =>
            /\ nsubmitted = Len(projects)
            /\ queue = <<>>
            /\ Running = {}
            /\ \A i \in Tasks : pc[i] \in {"done", "failed"})
    /\ [](mainPc = "raised" =>
            /\ raisedExc \notin {"none", "GitError"}
            /\ \E i \in Tasks : pc[i] = "failed" /\ futExc[i] = raisedExc
            /\ Recorded = Cardinality({i \in Tasks : pc[i] = "done"}))
    /\ []((\E i \in Tasks : pc[i] = "failed") => mainPc # "returned")
    /\ [][(mainPc # "raised" /\ mainPc' = "raised") =>
            \A i \in Tasks : pc[i] \in {"done", "failed"} /\ pc'[i] = pc[i]]_vars

\* One project's clone raised OSError; the other project was still synced
\* and reported before the exception reached the caller.
C30_Witness ==
    /\ mainPc = "raised"
    /\ raisedExc = "OSError"
    /\ Len(projects) >= 2
    /\ result.synced # <<>>
    /\ \E i \in Tasks : pc[i] = "failed" /\ i = 1

====
